---- MODULE Spec2Model ----
(***************************************************************************)
(* Record/replay harness of oscar/SleepLib/deviceconnection.cpp.           *)
(*                                                                         *)
(* An XML document is a sequence of reader tokens: a start element with    *)
(* its attributes, or an end element.  XmlRecord appends tokens to a sink, *)
(* XmlReplay reads them back with QXmlStreamReader's readNextStartElement  *)
(* and skipCurrentElement.  DeviceConnectionManager holds one XmlRecord    *)
(* pointer, one XmlReplay pointer and the most recent port list.           *)
(***************************************************************************)
EXTENDS Integers, Sequences, FiniteSets, TLC

VARIABLES
    files,          \* content of every sink: sink id -> sequence of tokens
    m_record,       \* DeviceConnectionManager::m_record (NULL or the sink of the XmlRecord)
    m_replay,       \* DeviceConnectionManager::m_replay (NoReplay or an XmlReplay object)
    m_serialPorts,  \* DeviceConnectionManager::m_serialPorts (most recent list)
    s_factories,    \* XmlReplayEvent::s_factories (tag -> event class)
    now,            \* QDateTime::currentDateTime(), in ticks
    count,          \* the numbers of calls made so far
    call,           \* the last getAvailablePorts call since the last replay(): the list
                    \* it returned and the list the PortLister returned, if it was asked
    replayLog,      \* the lists returned by the calls served by the current replay session
    lastNext,       \* the XmlReplay::getNextEvent(type) call of the last call, if it made one
    returned,       \* tag -> the events getNextEvent returned from the current XmlReplay
    recLists,       \* sink id -> the events recorded to that sink, each with the mode of its call
    written,        \* the writes to the sinks in their order: <<sink, "open" | "event" | "close">>
    src,            \* the source the current replay session was loaded from
    reg,            \* the last call of registerClass or createInstance and what it returned
    port            \* the SerialPort: the settings of m_port and the last setter call

vars == <<files, m_record, m_replay, m_serialPorts, s_factories, now, count, call,
          replayLog, lastNext, returned, recLists, written, src, reg, port>>

-----------------------------------------------------------------------------
(* Bounds *)

MaxSinks == 2       \* sinks a caller can hand to record()
MaxLoads == 2       \* replay() calls in one run
MaxCalls == 3       \* getAvailablePorts calls in one run
MaxNext  == 4       \* getNextEvent calls in one run of the store specification
MaxElems == 3       \* elements in the events container of a generated document
MaxRegs  == 3       \* registerClass calls in one run of the registry specification
MaxCreate == 3      \* createInstance calls in one run of the registry specification
MaxSets  == 2       \* setter calls on the SerialPort in one run

NULL == 0
Sinks == 1 .. MaxSinks
NoReplay == <<>>
NoEvent == <<>>

-----------------------------------------------------------------------------
(* Strings of digits: QString::number(i, 16), toUpper, toUInt(&ok, 0) *)

LowerDigits == <<"0","1","2","3","4","5","6","7","8","9","a","b","c","d","e","f">>
UpperDigits == <<"0","1","2","3","4","5","6","7","8","9","A","B","C","D","E","F">>

RECURSIVE number16(_)
number16(i) ==
    IF i < 16 THEN <<LowerDigits[i + 1]>>
    ELSE number16(i \div 16) \o <<LowerDigits[(i % 16) + 1]>>

toUpper(s) ==
    [k \in 1 .. Len(s) |->
        IF \E d \in 1 .. 16 : LowerDigits[d] = s[k]
        THEN UpperDigits[CHOOSE d \in 1 .. 16 : LowerDigits[d] = s[k]]
        ELSE IF s[k] = "x" THEN "X" ELSE s[k]]

\* hex without the "0x" prefix
hexNoPrefix(i) == toUpper(number16(i))

hex(i) == <<"0", "x">> \o toUpper(number16(i))

DigitValue(c) ==
    IF \E d \in 1 .. 16 : LowerDigits[d] = c
    THEN (CHOOSE d \in 1 .. 16 : LowerDigits[d] = c) - 1
    ELSE IF \E d \in 1 .. 16 : UpperDigits[d] = c
    THEN (CHOOSE d \in 1 .. 16 : UpperDigits[d] = c) - 1
    ELSE 99

\* The value of a digit string as an unsigned 32-bit number, kept as two
\* 16-bit halves; over is set once the value has left the 32-bit range
RECURSIVE DigitsValue(_, _, _)
DigitsValue(s, base, acc) ==
    IF s = <<>> THEN acc
    ELSE LET low == acc.lo * base + DigitValue(Head(s))
             high == acc.hi * base + (low \div 65536)
         IN  DigitsValue(Tail(s), base,
                         [hi |-> high % 65536, lo |-> low % 65536,
                          over |-> acc.over \/ high >= 65536])

\* QString::toUInt(&ok, 0): the C convention picks the base from the prefix.
toUInt(s) ==
    LET isHex == Len(s) >= 2 /\ s[1] = "0" /\ s[2] \in {"x", "X"}
        isOct == ~isHex /\ Len(s) >= 2 /\ s[1] = "0"
        base == IF isHex THEN 16 ELSE IF isOct THEN 8 ELSE 10
        digits == IF isHex THEN SubSeq(s, 3, Len(s))
                  ELSE IF isOct THEN SubSeq(s, 2, Len(s)) ELSE s
        valid == /\ digits # <<>>
                 /\ \A k \in 1 .. Len(digits) : DigitValue(digits[k]) < base
        v == IF valid THEN DigitsValue(digits, base, [hi |-> 0, lo |-> 0, over |-> FALSE])
             ELSE [hi |-> 0, lo |-> 0, over |-> TRUE]
    IN  [ok |-> valid /\ ~v.over, hi |-> v.hi, lo |-> v.lo]

\* QDateTime::toString(Qt::ISODateWithMs) and QDateTime::fromString
timeToString(t) == <<"T", t>>
timeFromString(s) == s[2]

-----------------------------------------------------------------------------
(* Tokens of the XML stream *)

StartTok(name, attrs) == [kind |-> "start", name |-> name, attrs |-> attrs]
EndTok == [kind |-> "end"]
NoAttrs == <<>>

RECURSIVE Concat(_)
Concat(ss) == IF ss = <<>> THEN <<>> ELSE Head(ss) \o Concat(Tail(ss))

-----------------------------------------------------------------------------
(* The external PortLister: QSerialPortInfo::availablePorts() *)

QPort(name, loc, descr, manu, serial, hasV, v, hasP, p) ==
    [isNull |-> FALSE, portName |-> name, systemLocation |-> loc,
     description |-> descr, manufacturer |-> manu, serialNumber |-> serial,
     hasVendorIdentifier |-> hasV, vendorIdentifier |-> v,
     hasProductIdentifier |-> hasP, productIdentifier |-> p]

QUsb == QPort("ttyUSB0", "/dev/ttyUSB0", "FT232R", "FTDI", "A1", TRUE, 1027, TRUE, 24577)
QPlain == QPort("ttyS0", "/dev/ttyS0", "", "", "", FALSE, 0, FALSE, 0)
QZero == QPort("ttyACM0", "/dev/ttyACM0", "modem", "", "", TRUE, 0, FALSE, 0)
QNull == [isNull |-> TRUE]

\* The lists the PortLister can return at a call.
ListerResults == { <<QUsb, QPlain>>, <<QZero, QNull>> }

-----------------------------------------------------------------------------
(* SerialPortInfo: the attribute bag m_info, a function from keys to values *)

IdKeys == {"vendorIdentifier", "productIdentifier"}
TextKeys == {"portName", "systemLocation", "description", "manufacturer", "serialNumber"}

EmptyInfo == <<>>

\* SerialPortInfo::SerialPortInfo(const QSerialPortInfo &)
SerialPortInfoOf(other) ==
    IF other.isNull THEN EmptyInfo
    ELSE LET keys == TextKeys
                     \cup (IF other.hasVendorIdentifier THEN {"vendorIdentifier"} ELSE {})
                     \cup (IF other.hasProductIdentifier THEN {"productIdentifier"} ELSE {})
         IN  [k \in keys |-> other[k]]

\* Accessors of SerialPortInfo (declared in deviceconnection.h)
isNull(info) == DOMAIN info = {}
hasVendorIdentifier(info) == "vendorIdentifier" \in DOMAIN info
hasProductIdentifier(info) == "productIdentifier" \in DOMAIN info
infoText(info, key) == IF key \in DOMAIN info THEN info[key] ELSE ""
infoId(info, key) == IF key \in DOMAIN info THEN info[key] ELSE 0

\* bool SerialPortInfo::operator==
InfoEqual(a, b) == a = b

\* operator<<(QXmlStreamWriter &, const SerialPortInfo &)
WriteSerialPortInfo(info) ==
    LET keys == IF isNull(info) THEN {}
                ELSE TextKeys
                     \cup (IF hasVendorIdentifier(info) THEN {"vendorIdentifier"} ELSE {})
                     \cup (IF hasProductIdentifier(info) THEN {"productIdentifier"} ELSE {})
        attrs == [k \in keys |-> IF k \in IdKeys THEN hex(infoId(info, k))
                                 ELSE infoText(info, k)]
    IN  << StartTok("serial", attrs), EndTok >>

\* operator<<(QXmlStreamWriter &, const QList<T> &)
WritePortList(list) == Concat([k \in 1 .. Len(list) |-> WriteSerialPortInfo(list[k])])

\* XmlReplayBase<Derived>::TAG of every event class (REGISTER_XMLREPLAYEVENT)
ClassTag == [GetAvailablePortsEvent |-> "getAvailablePorts"]

\* XmlReplayEvent::XmlReplayEvent: m_time is the time of construction; addr is
\* the identity of the object (0 for an object on the stack)
NewEvent(class, t, addr) == [class |-> class, m_time |-> t, m_ports |-> <<>>, addr |-> addr]

\* XmlReplayBase<Derived>::tag
tag(event) == ClassTag[event.class]

\* operator<<(QXmlStreamWriter &, const XmlReplayEvent &): the element of one
\* GetAvailablePortsEvent, whose write() writes m_ports
WriteEvent(event) ==
    << StartTok(tag(event), [time |-> timeToString(event.m_time)]) >>
    \o WritePortList(event.m_ports)
    \o << EndTok >>

\* XmlRecord::prologue
Prologue == << StartTok("xmlreplay", NoAttrs), StartTok("events", NoAttrs) >>

\* epilogue closing the events element only
EpilogueOneEnd == << EndTok >>

\* XmlRecord::epilogue
Epilogue == << EndTok, EndTok >>

-----------------------------------------------------------------------------
(* QXmlStreamReader over a token sequence; p is the index of the current     *)
(* token, 0 before the first read and Len(toks) + 1 once the input has ended *)

\* QXmlStreamReader::readNextStartElement
readNextStartElement(toks, p) ==
    IF p + 1 > Len(toks) THEN [ok |-> FALSE, pos |-> Len(toks) + 1]
    ELSE [ok |-> toks[p + 1].kind = "start", pos |-> p + 1]

RECURSIVE SkipFrom(_, _, _)
SkipFrom(toks, p, depth) ==
    IF depth = 0 THEN p
    ELSE IF p + 1 > Len(toks) THEN Len(toks) + 1
    ELSE IF toks[p + 1].kind = "start" THEN SkipFrom(toks, p + 1, depth + 1)
    ELSE SkipFrom(toks, p + 1, depth - 1)

\* QXmlStreamReader::skipCurrentElement
skipCurrentElement(toks, p) == SkipFrom(toks, p, 1)

atStart(toks, p) == p >= 1 /\ p <= Len(toks) /\ toks[p].kind = "start"

\* operator>>(QXmlStreamReader &, SerialPortInfo &): the bag read at position p
ReadSerialPortInfo(toks, p) ==
    IF atStart(toks, p) /\ toks[p].name = "serial"
    THEN LET attrs == toks[p].attrs
             keep == {n \in DOMAIN attrs : n \notin IdKeys \/ toUInt(attrs[n]).ok}
         IN  [n \in keep |-> IF n \in IdKeys THEN toUInt(attrs[n]).lo
                             ELSE attrs[n]]
    ELSE EmptyInfo

\* operator>>(QXmlStreamReader &, QList<T> &)
RECURSIVE ReadPortList(_, _, _)
ReadPortList(toks, p, list) ==
    LET r == readNextStartElement(toks, p)
    IN  IF ~r.ok THEN [pos |-> r.pos, list |-> list]
        ELSE ReadPortList(toks, skipCurrentElement(toks, r.pos),
                          Append(list, ReadSerialPortInfo(toks, r.pos)))

-----------------------------------------------------------------------------
(* The event registry and XmlReplay *)

\* registerClass replacing the factory of a tag that is already registered
registerClassOverwrite(factories, tag_, factory) ==
    [ret |-> TRUE, factories |-> (tag_ :> factory) @@ factories]

\* XmlReplayEvent::registerClass: the value returned and the new s_factories
registerClass(factories, tag_, factory) ==
    IF tag_ \in DOMAIN factories
    THEN [ret |-> FALSE, factories |-> factories]
    ELSE [ret |-> TRUE, factories |-> factories @@ (tag_ :> factory)]

\* createInstance constructing a GetAvailablePortsEvent for a tag without factory
createInstanceDefault(factories, name, t, addr) ==
    IF name \in DOMAIN factories THEN NewEvent(factories[name], t, addr)
    ELSE NewEvent("GetAvailablePortsEvent", t, addr)

\* XmlReplayEvent::createInstance
createInstance(factories, name, t, addr) ==
    IF name \in DOMAIN factories THEN NewEvent(factories[name], t, addr) ELSE NoEvent

\* The virtual read(): GetAvailablePortsEvent::read reads m_ports, the base
\* class's read does nothing
EventRead(event, toks, p) ==
    IF event.class = "GetAvailablePortsEvent"
    THEN LET r == ReadPortList(toks, p, <<>>)
         IN  [event |-> [event EXCEPT !.m_ports = r.list], pos |-> r.pos]
    ELSE [event |-> event, pos |-> p]

\* operator>> giving up, without read(), on an element without time attribute
ReadEventNeedsTime(event, toks, p, t) ==
    IF "time" \in DOMAIN toks[p].attrs THEN EventRead(event, toks, p)
    ELSE [event |-> event, pos |-> p]

\* operator>>(QXmlStreamReader &, XmlReplayEvent &): the time attribute is
\* parsed into a local variable; the event keeps the m_time of its construction
ReadEvent(event, toks, p, t) ==
    LET time == IF "time" \in DOMAIN toks[p].attrs
                THEN timeFromString(toks[p].attrs.time) ELSE t
    IN  EventRead(event, toks, p)

\* append putting the event in front of its tag's sequence
AppendEventFront(events, name, event) ==
    IF name \in DOMAIN events THEN [events EXCEPT ![name] = <<event>> \o @]
    ELSE events @@ (name :> <<event>>)

\* auto & events = m_events[name]; events.append(event)
AppendEvent(events, name, event) ==
    IF name \in DOMAIN events THEN [events EXCEPT ![name] = Append(@, event)]
    ELSE events @@ (name :> <<event>>)

\* deserializeEvents without skipCurrentElement for an element without factory
RECURSIVE deserializeEventsNoSkip(_, _, _, _, _, _)
deserializeEventsNoSkip(toks, p, events, n, factories, t) ==
    LET r == readNextStartElement(toks, p)
    IN  IF ~r.ok THEN [pos |-> r.pos, events |-> events, n |-> n]
        ELSE LET name == toks[r.pos].name
                 event == createInstance(factories, name, t, n + 1)
             IN  IF event # NoEvent
                 THEN LET rd == ReadEvent(event, toks, r.pos, t)
                      IN  deserializeEventsNoSkip(toks, rd.pos,
                                                  AppendEvent(events, name, rd.event),
                                                  n + 1, factories, t)
                 ELSE deserializeEventsNoSkip(toks, r.pos, events, n, factories, t)

\* XmlReplay::deserializeEvents; n counts the events constructed so far
RECURSIVE deserializeEvents(_, _, _, _, _, _)
deserializeEvents(toks, p, events, n, factories, t) ==
    LET r == readNextStartElement(toks, p)
    IN  IF ~r.ok THEN [pos |-> r.pos, events |-> events, n |-> n]
        ELSE LET name == toks[r.pos].name
                 event == createInstance(factories, name, t, n + 1)
             IN  IF event # NoEvent
                 THEN LET rd == ReadEvent(event, toks, r.pos, t)
                      IN  deserializeEvents(toks, rd.pos, AppendEvent(events, name, rd.event),
                                            n + 1, factories, t)
                 ELSE deserializeEvents(toks, skipCurrentElement(toks, r.pos), events,
                                        n, factories, t)

\* the loop of deserialize without skipCurrentElement for an unexpected child
RECURSIVE deserializeChildrenNoSkip(_, _, _, _, _, _)
deserializeChildrenNoSkip(toks, p, events, n, factories, t) ==
    LET r == readNextStartElement(toks, p)
    IN  IF ~r.ok THEN events
        ELSE IF toks[r.pos].name = "events"
        THEN LET d == deserializeEvents(toks, r.pos, events, n, factories, t)
             IN  deserializeChildrenNoSkip(toks, d.pos, d.events, d.n, factories, t)
        ELSE deserializeChildrenNoSkip(toks, r.pos, events, n, factories, t)

\* The loop of XmlReplay::deserialize over the children of the root
RECURSIVE deserializeChildren(_, _, _, _, _, _)
deserializeChildren(toks, p, events, n, factories, t) ==
    LET r == readNextStartElement(toks, p)
    IN  IF ~r.ok THEN events
        ELSE IF toks[r.pos].name = "events"
        THEN LET d == deserializeEvents(toks, r.pos, events, n, factories, t)
             IN  deserializeChildren(toks, d.pos, d.events, d.n, factories, t)
        ELSE deserializeChildren(toks, skipCurrentElement(toks, r.pos), events,
                                 n, factories, t)

\* deserialize reading the children of a root element of any name
deserializeAnyRoot(toks, factories, t) ==
    LET r == readNextStartElement(toks, 0)
    IN  IF r.ok
        THEN deserializeChildren(toks, r.pos, <<>>, 0, factories, t)
        ELSE <<>>

\* XmlReplay::deserialize: the m_events of the loaded document
deserialize(toks, factories, t) ==
    LET r == readNextStartElement(toks, 0)
    IN  IF r.ok /\ toks[r.pos].name = "xmlreplay"
        THEN deserializeChildren(toks, r.pos, <<>>, 0, factories, t)
        ELSE <<>>

\* XmlReplay::XmlReplay
XmlReplayOf(toks, factories, t) ==
    [m_events |-> deserialize(toks, factories, t), m_indices |-> <<>>]

\* m_indices[type], which is 0 for a type that has no entry yet
Index(replay, type) ==
    IF type \in DOMAIN replay.m_indices THEN replay.m_indices[type] ELSE 0

Stored(replay, type) ==
    IF type \in DOMAIN replay.m_events THEN replay.m_events[type] ELSE <<>>

\* getNextEvent serving every type from the events of one tag of m_events
getNextEventAnyTag(replay, type) ==
    IF DOMAIN replay.m_events # {}
    THEN LET T == CHOOSE k \in DOMAIN replay.m_events : TRUE
             events == replay.m_events[T]
             i == Index(replay, T)
         IN  IF i < Len(events)
             THEN [event |-> events[i + 1],
                   replay |-> [replay EXCEPT !.m_indices = (T :> i + 1) @@ @]]
             ELSE [event |-> NoEvent, replay |-> replay]
    ELSE [event |-> NoEvent, replay |-> replay]

\* getNextEvent without the advance of m_indices[type]
getNextEventNoAdvance(replay, type) ==
    IF type \in DOMAIN replay.m_events /\ Index(replay, type) < Len(replay.m_events[type])
    THEN [event |-> replay.m_events[type][Index(replay, type) + 1], replay |-> replay]
    ELSE [event |-> NoEvent, replay |-> replay]

\* getNextEvent advancing m_indices[type] also when no event is left
getNextEventOverrun(replay, type) ==
    IF type \in DOMAIN replay.m_events
    THEN LET events == replay.m_events[type]
             i == Index(replay, type)
         IN  [event |-> IF i < Len(events) THEN events[i + 1] ELSE NoEvent,
              replay |-> [replay EXCEPT !.m_indices = (type :> i + 1) @@ @]]
    ELSE [event |-> NoEvent, replay |-> replay]

\* XmlReplay::getNextEvent(const QString & type)
getNextEvent(replay, type) ==
    IF type \in DOMAIN replay.m_events
    THEN LET events == replay.m_events[type]
             i == Index(replay, type)
             indices == IF type \in DOMAIN replay.m_indices THEN replay.m_indices
                        ELSE replay.m_indices @@ (type :> 0)
         IN  IF i < Len(events)
             THEN [event |-> events[i + 1],
                   replay |-> [replay EXCEPT !.m_indices = [indices EXCEPT ![type] = i + 1]]]
             ELSE [event |-> NoEvent, replay |-> [replay EXCEPT !.m_indices = indices]]
    ELSE [event |-> NoEvent, replay |-> replay]

\* template<class T> T* XmlReplay::getNextEvent(): the dynamic_cast gives
\* nullptr for an event of another class
getNextEventOf(replay, class) ==
    LET r == getNextEvent(replay, ClassTag[class])
    IN  IF r.event # NoEvent /\ r.event.class = class THEN r
        ELSE [event |-> NoEvent, replay |-> r.replay]

-----------------------------------------------------------------------------
(* Trace documents a caller can hand to replay(const QString &) *)

\* a trace whose events container is empty
DocEmpty == Prologue \o Epilogue

\* a trace written by another tool: an unknown top-level section, an unknown
\* element between the events, a port with only some attributes, an event
\* without a time attribute
DocForeign ==
    << StartTok("xmlreplay", NoAttrs),
       StartTok("connections", NoAttrs), StartTok("serial", NoAttrs), EndTok, EndTok,
       StartTok("events", NoAttrs),
       StartTok("getAvailablePorts", [time |-> timeToString(7)]),
       StartTok("serial", [portName |-> "COM1", vendorIdentifier |-> <<"0", "x", "1", "0">>]),
       EndTok,
       EndTok,
       StartTok("openConnection", NoAttrs), StartTok("serial", NoAttrs), EndTok, EndTok,
       StartTok("getAvailablePorts", NoAttrs),
       StartTok("serial", [portName |-> "COM1"]), EndTok,
       StartTok("serial", [portName |-> "COM2", productIdentifier |-> <<"z">>]), EndTok,
       EndTok,
       EndTok,
       EndTok >>

\* a document whose root element is not xmlreplay
DocOtherRoot ==
    << StartTok("html", NoAttrs),
       StartTok("events", NoAttrs),
       StartTok("getAvailablePorts", [time |-> timeToString(7)]),
       StartTok("serial", [portName |-> "COM1"]), EndTok,
       EndTok,
       EndTok,
       EndTok >>

\* the strings the caller of the manager holds
FixedDocs == << DocForeign >>

\* replay(QFile*) is handed a file written by a recorder or nullptr,
\* replay(const QString &) a string of the caller
NoFile == <<"null", 0>>
Files == {<<"sink", s>> : s \in Sinks}
Strings == {<<"doc", d>> : d \in 1 .. Len(FixedDocs)}

\* a document without root element: the events container at the top level
DocEventsRoot == SubSeq(DocOtherRoot, 2, Len(DocOtherRoot) - 1)

\* documents of any origin a caller can hand to replay: an empty one, one with
\* another root, one without root, and two traces
OtherDocs == << <<>>, DocOtherRoot, DocEventsRoot, DocEmpty, DocForeign >>
Texts == {<<"text", d>> : d \in 1 .. Len(OtherDocs)}

Content(file) ==
    IF file[1] = "sink" THEN files[file[2]]
    ELSE IF file[1] = "doc" THEN FixedDocs[file[2]]
    ELSE OtherDocs[file[2]]

Tags == {"getAvailablePorts", "serial", "openConnection"}

-----------------------------------------------------------------------------
(* DeviceConnectionManager *)

\* DeviceConnectionManager::reset (deviceconnection.h): clears the cached list
reset(serialPorts) == <<>>

\* a registration of GetAvailablePortsEvent's factory under another tag than its TAG
RegisteredUnderOtherTag == [openConnection |-> "GetAvailablePortsEvent"]

\* The REGISTER_XMLREPLAYEVENT registrations done at static initialization
Registered == [getAvailablePorts |-> "GetAvailablePortsEvent"]

\* no registry call and no setter call made yet
NoReg == [op |-> "none", tag |-> "", factory |-> "", ret |-> FALSE, event |-> NoEvent,
          regs |-> 0, creates |-> 0, made |-> 0, first |-> <<>>]
NoPort == [op |-> "none", sets |-> 0, settings |-> <<>>]

NoCall == [made |-> FALSE, ports |-> <<>>, queried |-> FALSE, lister |-> <<>>]
NoNext == [type |-> "", event |-> NoEvent]

\* DeviceConnectionManager::DeviceConnectionManager and the empty sinks
Init ==
    /\ files = [s \in Sinks |-> <<>>]
    /\ m_record = NULL
    /\ m_replay = NoReplay
    /\ m_serialPorts = <<>>
    /\ s_factories = Registered
    /\ now = 1
    /\ count = [calls |-> 0, loads |-> 0, nexts |-> 0]
    /\ call = NoCall
    /\ replayLog = <<>>
    /\ lastNext = NoNext
    /\ returned = [t \in Tags |-> <<>>]
    /\ recLists = [s \in Sinks |-> <<>>]
    /\ written = <<>>
    /\ src = [file |-> NoFile, final |-> FALSE]
    /\ reg = NoReg
    /\ port = NoPort

\* record() dropping the current recorder without deleting it
DeleteRecordLeak(f, record) == f

\* XmlRecord::~XmlRecord of the current recorder, if any
DeleteRecord(f, record) ==
    IF record # NULL THEN [f EXCEPT ![record] = @ \o Epilogue] ELSE f

\* The body of DeviceConnectionManager::record: the new content of the sinks
RecordFiles(f, record, stream) ==
    LET closed == DeleteRecord(f, record)
    IN  IF stream # NULL THEN [closed EXCEPT ![stream] = @ \o Prologue] ELSE closed

\* The sink of a new recording is a new, empty sink: sinks are numbered in the
\* order in which the caller creates them
IsNewSink(stream) ==
    /\ files[stream] = <<>>
    /\ \A other \in Sinks : other < stream => files[other] # <<>>

\* The order of the writes of DeviceConnectionManager::record: the epilogue of
\* the deleted recorder, then the prologue of the new one
RecordWrites(log, record, stream) ==
    log \o (IF record # NULL THEN << <<record, "close">> >> ELSE <<>>)
        \o (IF stream # NULL THEN << <<stream, "open">> >> ELSE <<>>)

\* DeviceConnectionManager::record(QFile* stream); the caller hands over a new
\* sink or nullptr
Record(stream) ==
    /\ IF stream = NULL THEN TRUE ELSE IsNewSink(stream)
    /\ files' = RecordFiles(files, m_record, stream)
    /\ m_record' = stream
    /\ written' = RecordWrites(written, m_record, stream)
    /\ UNCHANGED <<m_replay, m_serialPorts, s_factories, now, count, call, replayLog,
                   lastNext, returned, recLists, src, reg, port>>

\* DeviceConnectionManager::record(QString & string)
RecordString(string) ==
    /\ IsNewSink(string)
    /\ files' = RecordFiles(files, m_record, string)
    /\ m_record' = string
    /\ written' = RecordWrites(written, m_record, string)
    /\ UNCHANGED <<m_replay, m_serialPorts, s_factories, now, count, call, replayLog,
                   lastNext, returned, recLists, src, reg, port>>

\* replay() without the call of reset()
ReplayBodyNoReset(file) ==
    /\ count.loads < MaxLoads
    /\ file[1] = "sink" => files[file[2]] # <<>>
    /\ m_replay' = IF file # NoFile THEN XmlReplayOf(Content(file), s_factories, now)
                   ELSE NoReplay
    /\ count' = [count EXCEPT !.loads = @ + 1]
    /\ call' = NoCall
    /\ lastNext' = NoNext
    /\ replayLog' = <<>>
    /\ returned' = [t \in Tags |-> <<>>]
    /\ src' = [file |-> IF file[1] = "doc" THEN <<"doc", 0>> ELSE file,
               final |-> file[1] = "sink" /\ file[2] # m_record]
    /\ UNCHANGED <<files, m_record, m_serialPorts, s_factories, now, recLists, written,
                   reg, port>>

\* The body of DeviceConnectionManager::replay: reset(), delete m_replay, then
\* the new XmlReplay or nullptr
ReplayBody(file) ==
    /\ count.loads < MaxLoads
    /\ file[1] = "sink" => files[file[2]] # <<>>
    /\ m_serialPorts' = reset(m_serialPorts)
    /\ m_replay' = IF file # NoFile THEN XmlReplayOf(Content(file), s_factories, now)
                   ELSE NoReplay
    /\ count' = [count EXCEPT !.loads = @ + 1]
    /\ call' = NoCall
    /\ lastNext' = NoNext
    /\ replayLog' = <<>>
    /\ returned' = [t \in Tags |-> <<>>]
    /\ src' = [file |-> IF file[1] = "doc" THEN <<"doc", 0>> ELSE file,
               final |-> file[1] = "sink" /\ file[2] # m_record]
    /\ UNCHANGED <<files, m_record, s_factories, now, recLists, written, reg, port>>

\* DeviceConnectionManager::replay(QFile* file)
Replay(file) == ReplayBody(file)

\* DeviceConnectionManager::replay(const QString & string)
ReplayString(string) == string # NoFile /\ ReplayBody(string)

\* record() writing the element of the event without the payload of write()
RecordEventNoPayload(f, record, event) ==
    IF record # NULL
    THEN [f EXCEPT ![record] = @ \o WriteEvent([event EXCEPT !.m_ports = <<>>])]
    ELSE f

\* XmlReplayEvent::record: the tokens the event adds to the recorder's sink
RecordEvent(f, record, event) ==
    IF record # NULL THEN [f EXCEPT ![record] = @ \o WriteEvent(event)] ELSE f

WrapPorts(lister) == [k \in 1 .. Len(lister) |-> SerialPortInfoOf(lister[k])]

\* getAvailablePorts returning an empty list when the replay has no event left
GetAvailablePortsStepNoCache(replay, serialPorts, lister, t) ==
    IF replay = NoReplay
    THEN [ports |-> WrapPorts(lister),
          replay |-> replay, queried |-> TRUE, next |-> NoEvent, fetched |-> FALSE]
    ELSE LET r == getNextEventOf(replay, "GetAvailablePortsEvent")
         IN  [ports |-> IF r.event # NoEvent THEN r.event.m_ports ELSE <<>>,
              replay |-> r.replay, queried |-> FALSE, next |-> r.event, fetched |-> TRUE]

\* getAvailablePorts asking the PortLister when the replay has no event left
GetAvailablePortsStepLiveFallback(replay, serialPorts, lister, t) ==
    IF replay = NoReplay
    THEN [ports |-> WrapPorts(lister),
          replay |-> replay, queried |-> TRUE, next |-> NoEvent, fetched |-> FALSE]
    ELSE LET r == getNextEventOf(replay, "GetAvailablePortsEvent")
         IN  [ports |-> IF r.event # NoEvent THEN r.event.m_ports ELSE WrapPorts(lister),
              replay |-> r.replay, queried |-> r.event = NoEvent, next |-> r.event,
              fetched |-> TRUE]

\* getAvailablePorts reusing a cached list in live mode
GetAvailablePortsStepStale(replay, serialPorts, lister, t) ==
    IF replay = NoReplay
    THEN [ports |-> IF serialPorts # <<>> THEN serialPorts ELSE WrapPorts(lister),
          replay |-> replay, queried |-> serialPorts = <<>>, next |-> NoEvent,
          fetched |-> FALSE]
    ELSE LET r == getNextEventOf(replay, "GetAvailablePortsEvent")
         IN  [ports |-> IF r.event # NoEvent THEN r.event.m_ports ELSE serialPorts,
              replay |-> r.replay, queried |-> FALSE, next |-> r.event, fetched |-> TRUE]

\* The outcome of DeviceConnectionManager::getAvailablePorts when the
\* PortLister would return lister
GetAvailablePortsStep(replay, serialPorts, lister, t) ==
    IF replay = NoReplay
    THEN [ports |-> WrapPorts(lister),
          replay |-> replay, queried |-> TRUE, next |-> NoEvent, fetched |-> FALSE]
    ELSE LET r == getNextEventOf(replay, "GetAvailablePortsEvent")
         IN  [ports |-> IF r.event # NoEvent THEN r.event.m_ports ELSE serialPorts,
              replay |-> r.replay, queried |-> FALSE, next |-> r.event, fetched |-> TRUE]

\* DeviceConnectionManager::getAvailablePorts
GetAvailablePorts(lister) ==
    /\ count.calls < MaxCalls
    /\ LET step == GetAvailablePortsStep(m_replay, m_serialPorts, lister, now)
           event == [NewEvent("GetAvailablePortsEvent", now, 0) EXCEPT !.m_ports = step.ports]
       IN  /\ m_replay' = step.replay
           /\ m_serialPorts' = event.m_ports
           /\ files' = RecordEvent(files, m_record, event)
           /\ call' = [made |-> TRUE, ports |-> event.m_ports, queried |-> step.queried,
                       lister |-> IF step.queried THEN lister ELSE <<>>]
           /\ count' = [count EXCEPT !.calls = @ + 1]
           /\ replayLog' = IF step.fetched THEN Append(replayLog, event.m_ports) ELSE replayLog
           /\ lastNext' = IF step.fetched
                          THEN [type |-> "getAvailablePorts", event |-> step.next]
                          ELSE NoNext
           /\ returned' = IF step.fetched /\ step.next # NoEvent
                          THEN [returned EXCEPT !["getAvailablePorts"] = Append(@, step.next)]
                          ELSE returned
           /\ recLists' = IF m_record # NULL
                          THEN [recLists EXCEPT ![m_record] =
                                    Append(@, [event |-> event, live |-> ~step.fetched])]
                          ELSE recLists
           /\ written' = IF m_record # NULL THEN Append(written, <<m_record, "event">>)
                         ELSE written
    /\ now' = now + 1
    /\ UNCHANGED <<m_record, s_factories, src, reg, port>>

Next ==
    \/ \E stream \in Sinks \cup {NULL} : Record(stream)
    \/ \E string \in Sinks : RecordString(string)
    \/ \E file \in Files \cup {NoFile} : Replay(file)
    \/ \E string \in Strings : ReplayString(string)
    \/ \E lister \in ListerResults : GetAvailablePorts(lister)

Spec == Init /\ [][Next]_vars

-----------------------------------------------------------------------------
(* The event store on its own: an XmlReplay loaded from a generated document, *)
(* and getNextEvent called for any type                                       *)

ElemUsb ==
    WriteEvent([NewEvent("GetAvailablePortsEvent", 3, 0)
                EXCEPT !.m_ports = <<SerialPortInfoOf(QUsb)>>])
ElemNone == WriteEvent(NewEvent("GetAvailablePortsEvent", 4, 0))
ElemUnknown == << StartTok("openConnection", NoAttrs), StartTok("serial", NoAttrs), EndTok, EndTok >>
ElemSerial == WriteSerialPortInfo(SerialPortInfoOf(QPlain))


\* the elements of DocForeign: its top-level section, its event with a time
\* attribute and its event without one
SectionPlain == SubSeq(DocForeign, 2, 5)
ElemPartial == SubSeq(DocForeign, 7, 10)
ElemTwoPorts == SubSeq(DocForeign, 15, 20)

\* the element of ElemTwoPorts with a time attribute
ElemTwoPortsTimed == [ElemTwoPorts EXCEPT ![1].attrs = [time |-> timeToString(5)]]

\* a top-level section that holds an events element of its own
SectionNested ==
    << StartTok("connections", NoAttrs), StartTok("events", NoAttrs) >>
    \o ElemUsb \o << EndTok, EndTok >>

ElemKinds == {ElemUsb, ElemNone, ElemUnknown, ElemSerial, ElemTwoPorts}

\* A document by its layout: the root element, the sections before the events
\* container, the elements of the container and the sections after it
BuildDoc(l) ==
    << StartTok(l.root, NoAttrs) >> \o Concat(l.pre)
    \o << StartTok("events", NoAttrs) >> \o Concat(l.events) \o << EndTok >>
    \o Concat(l.post) \o << EndTok >>

Layout(root, pre, events, post) ==
    [root |-> root, pre |-> pre, events |-> events, post |-> post]

\* the layouts whose events container holds up to MaxElems of the element kinds
GeneratedLayouts ==
    {Layout("xmlreplay", pre, events, post) :
        pre \in {<<>>, <<SectionNested>>},
        events \in UNION {[1 .. k -> ElemKinds] : k \in 0 .. MaxElems},
        post \in {<<>>, <<SectionNested>>}}

LayoutForeign == Layout("xmlreplay", <<SectionPlain>>, <<ElemPartial, ElemUnknown, ElemTwoPorts>>, <<>>)
LayoutOtherRoot == Layout("html", <<>>, << SubSeq(DocOtherRoot, 3, 6) >>, <<>>)

StoreLayouts == GeneratedLayouts \cup {LayoutForeign, LayoutOtherRoot}

GeneratedDocs == {BuildDoc(l) : l \in GeneratedLayouts}

StoreDocs == {BuildDoc(l) : l \in StoreLayouts}

\* the state after replay(string) on a newly constructed manager
InitStore ==
    /\ \E l \in StoreLayouts :
          /\ m_replay = XmlReplayOf(BuildDoc(l), Registered, 1)
          /\ src = [file |-> <<"string", l>>, final |-> FALSE]
    /\ files = [s \in Sinks |-> <<>>]
    /\ m_record = NULL
    /\ m_serialPorts = <<>>
    /\ s_factories = Registered
    /\ now = 1
    /\ count = [calls |-> 0, loads |-> 1, nexts |-> 0]
    /\ call = NoCall
    /\ replayLog = <<>>
    /\ lastNext = NoNext
    /\ returned = [t \in Tags |-> <<>>]
    /\ recLists = [s \in Sinks |-> <<>>]
    /\ written = <<>>
    /\ reg = NoReg
    /\ port = NoPort

\* one call of XmlReplay::getNextEvent(type)
NextEvent(type) ==
    /\ m_replay # NoReplay
    /\ count.nexts < MaxNext
    /\ LET r == getNextEvent(m_replay, type)
       IN  /\ m_replay' = r.replay
           /\ lastNext' = [type |-> type, event |-> r.event]
           /\ returned' = IF r.event # NoEvent
                          THEN [returned EXCEPT ![type] = Append(@, r.event)]
                          ELSE returned
    /\ count' = [count EXCEPT !.nexts = @ + 1]
    /\ UNCHANGED <<files, m_record, m_serialPorts, s_factories, now, call,
                   replayLog, recLists, written, src, reg, port>>

\* one call of the template XmlReplay::getNextEvent<T>()
NextEventOf(class) ==
    /\ m_replay # NoReplay
    /\ count.nexts < MaxNext
    /\ LET r == getNextEventOf(m_replay, class)
       IN  /\ m_replay' = r.replay
           /\ lastNext' = [type |-> ClassTag[class], event |-> r.event]
           /\ returned' = IF r.event # NoEvent
                          THEN [returned EXCEPT ![ClassTag[class]] = Append(@, r.event)]
                          ELSE returned
    /\ count' = [count EXCEPT !.nexts = @ + 1]
    /\ UNCHANGED <<files, m_record, m_serialPorts, s_factories, now, call,
                   replayLog, recLists, written, src, reg, port>>

NextStore ==
    \/ \E type \in Tags : NextEvent(type)
    \/ \E class \in DOMAIN ClassTag : NextEventOf(class)

SpecStore == InitStore /\ [][NextStore]_vars

-----------------------------------------------------------------------------
(* The event registry on its own: registerClass and createInstance called    *)
(* for any tag, from the empty s_factories of the start of the process       *)

\* the factories a caller can register: XmlReplayBase<Derived>::createInstance
\* of GetAvailablePortsEvent and of another event class
Factories == {"GetAvailablePortsEvent", "OtherEvent"}

InitRegistry ==
    /\ files = [s \in Sinks |-> <<>>]
    /\ m_record = NULL
    /\ m_replay = NoReplay
    /\ m_serialPorts = <<>>
    /\ s_factories = <<>>
    /\ now = 1
    /\ count = [calls |-> 0, loads |-> 0, nexts |-> 0]
    /\ call = NoCall
    /\ replayLog = <<>>
    /\ lastNext = NoNext
    /\ returned = [t \in Tags |-> <<>>]
    /\ recLists = [s \in Sinks |-> <<>>]
    /\ written = <<>>
    /\ src = [file |-> NoFile, final |-> FALSE]
    /\ reg = NoReg
    /\ port = NoPort

\* one call of XmlReplayEvent::registerClass(tag, factory)
RegisterClass(tag_, factory) ==
    /\ reg.regs < MaxRegs
    /\ LET r == registerClass(s_factories, tag_, factory)
       IN  /\ s_factories' = r.factories
           /\ reg' = [reg EXCEPT !.op = "register", !.tag = tag_, !.factory = factory,
                                 !.ret = r.ret, !.event = NoEvent, !.regs = @ + 1,
                                 !.first = IF tag_ \in DOMAIN @ THEN @
                                           ELSE @ @@ (tag_ :> factory)]
    /\ UNCHANGED <<files, m_record, m_replay, m_serialPorts, now, count, call, replayLog,
                   lastNext, returned, recLists, written, src, port>>

\* one call of XmlReplayEvent::createInstance(tag)
CreateInstance(tag_) ==
    /\ reg.creates < MaxCreate
    /\ LET event == createInstance(s_factories, tag_, now, reg.made + 1)
       IN  reg' = [reg EXCEPT !.op = "create", !.tag = tag_, !.factory = "",
                              !.ret = FALSE, !.event = event, !.creates = @ + 1,
                              !.made = IF event # NoEvent THEN @ + 1 ELSE @]
    /\ UNCHANGED <<files, m_record, m_replay, m_serialPorts, s_factories, now, count, call,
                   replayLog, lastNext, returned, recLists, written, src, port>>

NextRegistry ==
    \/ \E tag_ \in Tags, factory \in Factories : RegisterClass(tag_, factory)
    \/ \E tag_ \in Tags : CreateInstance(tag_)

SpecRegistry == InitRegistry /\ [][NextRegistry]_vars

-----------------------------------------------------------------------------
(* SerialPort: the setters of the port configuration, which build a          *)
(* SetValueEvent and print it with qDebug; m_port is the external transport  *)

\* QString::number(int) for a value that is not negative
RECURSIVE number10(_)
number10(i) ==
    IF i < 10 THEN <<LowerDigits[i + 1]>>
    ELSE number10(i \div 10) \o <<LowerDigits[(i % 10) + 1]>>

\* SetValueEvent::set
SetValue(event, name, value) ==
    [m_values |-> (name :> value) @@ event.m_values, m_keys |-> Append(event.m_keys, name)]

\* SetValueEvent::SetValueEvent(name, value)
SetValueEventOf(name, value) == SetValue([m_values |-> <<>>, m_keys |-> <<>>], name, value)

\* SetValueEvent::ok
EventOk(event) == ~("error" \in DOMAIN event.m_values)

\* operator<<(QXmlStreamWriter &, const SetValueEvent &)
WriteSetValueEvent(event) ==
    << StartTok("set", [k \in {event.m_keys[i] : i \in 1 .. Len(event.m_keys)} |->
                           number10(event.m_values[k])]),
       EndTok >>

\* what m_port answers to a setter: success, or failure with the
\* QSerialPort::SerialPortError that m_port.error() then returns
TransportOutcomes == {[ok |-> TRUE, error |-> 0], [ok |-> FALSE, error |-> 13]}

\* The body common to setDataBits, setParity, setStopBits and setFlowControl,
\* and to setBaudRate after its second set(): the transport is called, its
\* error is added to the event on failure, the event goes to qDebug
SetterBody(event, outcome) ==
    LET done == IF ~outcome.ok THEN SetValue(event, "error", outcome.error) ELSE event
    IN  [event |-> done, debug |-> WriteSetValueEvent(done), ret |-> EventOk(done)]

\* One setter call on the port: the new state of the SerialPort and of m_port
SetterStep(setter, event, value, outcome) ==
    LET r == SetterBody(event, outcome)
    IN  /\ port.sets < MaxSets
        /\ port' = [op |-> setter, sets |-> port.sets + 1,
                    settings |-> IF outcome.ok THEN (setter :> value) @@ port.settings
                                 ELSE port.settings,
                    outcome |-> outcome, event |-> r.event, debug |-> r.debug,
                    ret |-> r.ret]
        /\ UNCHANGED <<files, m_record, m_replay, m_serialPorts, s_factories, now, count,
                       call, replayLog, lastNext, returned, recLists, written, src, reg>>

\* SerialPort::setBaudRate
SetBaudRate(baudRate, directions, outcome) ==
    SetterStep("setBaudRate",
               SetValue(SetValueEventOf("baudRate", baudRate), "directions", directions),
               baudRate, outcome)

\* SerialPort::setDataBits
SetDataBits(dataBits, outcome) ==
    SetterStep("setDataBits", SetValueEventOf("setDataBits", dataBits), dataBits, outcome)

\* SerialPort::setParity
SetParity(parity, outcome) ==
    SetterStep("setParity", SetValueEventOf("setParity", parity), parity, outcome)

\* SerialPort::setStopBits
SetStopBits(stopBits, outcome) ==
    SetterStep("setStopBits", SetValueEventOf("setStopBits", stopBits), stopBits, outcome)

\* SerialPort::setFlowControl
SetFlowControl(flowControl, outcome) ==
    SetterStep("setFlowControl", SetValueEventOf("setFlowControl", flowControl),
               flowControl, outcome)

\* a SerialPort used while the manager starts and stops recordings
NextPort ==
    \/ \E stream \in Sinks \cup {NULL} : Record(stream)
    \/ \E string \in Sinks : RecordString(string)
    \/ \E outcome \in TransportOutcomes :
          \/ \E baudRate \in {9600, 19200}, directions \in {1, 3} :
                SetBaudRate(baudRate, directions, outcome)
          \/ \E dataBits \in {7, 8} : SetDataBits(dataBits, outcome)
          \/ \E parity \in {0, 2} : SetParity(parity, outcome)
          \/ \E stopBits \in {1, 2} : SetStopBits(stopBits, outcome)
          \/ \E flowControl \in {0, 1} : SetFlowControl(flowControl, outcome)

SpecPort == Init /\ [][NextPort]_vars

-----------------------------------------------------------------------------
(* The manager replaying documents of any origin, without recording *)

NextDocs ==
    \/ \E file \in Texts \cup {NoFile} : Replay(file)
    \/ \E string \in Texts : ReplayString(string)
    \/ \E lister \in ListerResults : GetAvailablePorts(lister)

SpecDocs == Init /\ [][NextDocs]_vars

-----------------------------------------------------------------------------
(* Claims *)

IsPrefix(a, b) == Len(a) <= Len(b) /\ \A i \in 1 .. Len(a) : a[i] = b[i]

ReplayActive == m_replay # NoReplay

PortsTag == "getAvailablePorts"

\* C1: in a replay session whose trace holds N >= 1 getAvailablePorts events,
\* call i of the session returns the list of stored event i for i <= N, and
\* every later call returns the list of the N-th call.
C1_ExhaustionFallback ==
    ReplayActive =>
        LET stored == Stored(m_replay, PortsTag)
            N == Len(stored)
        IN  N >= 1 =>
              \A i \in 1 .. Len(replayLog) :
                  /\ i <= N => replayLog[i] = stored[i].m_ports
                  /\ i > N => replayLog[i] = replayLog[N]

\* two stored events with different lists, and a third call served by the fallback
C1_Witness ==
    /\ ReplayActive
    /\ Len(Stored(m_replay, PortsTag)) = 2
    /\ Len(replayLog) = 3
    /\ replayLog[1] # replayLog[2]
    /\ replayLog[3] = replayLog[2]
    /\ lastNext.event = NoEvent

\* C2: for every tag the events returned by successive getNextEvent calls are
\* a prefix of the tag's stored sequence, and no event object is returned twice.
C2_CursorMonotonicity ==
    ReplayActive =>
        /\ \A t \in Tags : IsPrefix(returned[t], Stored(m_replay, t))
        /\ \A t, u \in Tags :
             \A i \in 1 .. Len(returned[t]) : \A j \in 1 .. Len(returned[u]) :
                 returned[t][i].addr = returned[u][j].addr => t = u /\ i = j

\* three stored events, two of them with equal payloads, all returned, then absent
C2_Witness ==
    /\ ReplayActive
    /\ Len(returned[PortsTag]) = 3
    /\ returned[PortsTag][1].m_ports = returned[PortsTag][2].m_ports
    /\ returned[PortsTag][1].m_ports # returned[PortsTag][3].m_ports
    /\ lastNext = [type |-> PortsTag, event |-> NoEvent]

CursorsInRange ==
    ReplayActive =>
        \A t \in Tags \cup DOMAIN m_replay.m_indices :
            0 <= Index(m_replay, t) /\ Index(m_replay, t) <= Len(Stored(m_replay, t))

NextEventStep == count'.nexts = count.nexts + 1

\* C3: every cursor stays within [0, len(events[T])]; getNextEvent(T) at the
\* end of T's sequence (or for a T without events) returns absent and changes
\* no cursor, and otherwise returns events[T][cursor[T]] and adds one to cursor[T].
C3_CursorStep ==
    [][ /\ CursorsInRange
        /\ CursorsInRange'
        /\ NextEventStep =>
             LET t == lastNext'.type
                 c == Index(m_replay, t)
                 events == Stored(m_replay, t)
             IN  /\ m_replay'.m_events = m_replay.m_events
                 /\ IF c = Len(events)
                    THEN /\ lastNext'.event = NoEvent
                         /\ \A u \in Tags : Index(m_replay', u) = Index(m_replay, u)
                    ELSE /\ lastNext'.event = events[c + 1]
                         /\ Index(m_replay', t) = c + 1
      ]_vars

\* a call at the end of a sequence of two events, after both were returned
C3_Witness ==
    /\ ReplayActive
    /\ count.nexts = 3
    /\ lastNext = [type |-> PortsTag, event |-> NoEvent]
    /\ Len(Stored(m_replay, PortsTag)) = 2
    /\ Index(m_replay, PortsTag) = 2
    /\ Len(returned[PortsTag]) = 2

Min(a, b) == IF a <= b THEN a ELSE b

\* the steps of getAvailablePorts, of replay and of record (a record(nullptr)
\* without a recorder changes nothing)
CallStep == count'.calls = count.calls + 1
ReplayStep == count'.loads = count.loads + 1
RecordStep == count' = count /\ m_record' # m_record

\* number of start tokens minus number of end tokens: 0 for a finalized trace
RECURSIVE Depth(_)
Depth(toks) ==
    IF toks = <<>> THEN 0
    ELSE Depth(Tail(toks)) + (IF Head(toks).kind = "start" THEN 1 ELSE -1)

\* C4: when a finalized trace is loaded as a replay session, the calls of the
\* session return, in order, the lists that the live-mode calls returned while
\* the trace was recorded, each descriptor equal by attribute-bag comparison.
C4_RecordReplayRoundTrip ==
    (ReplayActive /\ src.final) =>
        LET recorded == recLists[src.file[2]]
        IN  \A i \in 1 .. Min(Len(recorded), Len(replayLog)) :
              recorded[i].live =>
                /\ Len(replayLog[i]) = Len(recorded[i].event.m_ports)
                /\ \A k \in 1 .. Len(replayLog[i]) :
                     InfoEqual(replayLog[i][k], recorded[i].event.m_ports[k])

\* two different live lists recorded (ids present, absent, zero, a null port),
\* the trace finalized and loaded, and the first list replayed
C4_Witness ==
    /\ ReplayActive
    /\ src.final
    /\ Len(recLists[src.file[2]]) = 2
    /\ recLists[src.file[2]][1].live
    /\ recLists[src.file[2]][1].event.m_ports = WrapPorts(<<QUsb, QPlain>>)
    /\ recLists[src.file[2]][2].event.m_ports = WrapPorts(<<QZero, QNull>>)
    /\ Len(replayLog) = 1
    /\ replayLog[1] = WrapPorts(<<QUsb, QPlain>>)

\* C5: every replay() call empties the cached list, and a session whose trace
\* has no getAvailablePorts event returns the empty list at every call.
C5_ReplayResetsCache ==
    [][ /\ ReplayStep => m_serialPorts' = <<>>
        /\ (ReplayActive /\ Stored(m_replay, PortsTag) = <<>>)' =>
             (\A i \in 1 .. Len(replayLog') : replayLog'[i] = <<>>)
      ]_vars

\* a call before the switch returned a list, then two calls on the empty trace
C5_Witness ==
    /\ ReplayActive
    /\ Stored(m_replay, PortsTag) = <<>>
    /\ count.calls = 3
    /\ replayLog = << <<>>, <<>> >>
    /\ call.made /\ call.ports = <<>>

\* the list a replay session returns at its i-th call, from the stored events alone
ExpectedReplay(stored, i) ==
    IF stored = <<>> THEN <<>> ELSE stored[Min(i, Len(stored))].m_ports

\* C6: while a replay session is active a call does not query the PortLister,
\* its outcome is the same for every list the PortLister would return, and the
\* lists returned since the load are a function of the loaded trace.
C6_ReplayIgnoresPortLister ==
    ReplayActive =>
        /\ \A l1, l2 \in ListerResults :
             LET a == GetAvailablePortsStep(m_replay, m_serialPorts, l1, now)
                 b == GetAvailablePortsStep(m_replay, m_serialPorts, l2, now)
             IN  a.ports = b.ports /\ a.replay = b.replay /\ ~a.queried /\ ~b.queried
        /\ \A i \in 1 .. Len(replayLog) :
             replayLog[i] = ExpectedReplay(Stored(m_replay, PortsTag), i)
        /\ call.made => ~call.queried

\* a call served by the fallback, returning a list of the trace that is none of
\* the lists the PortLister would return
C6_Witness ==
    /\ ReplayActive
    /\ call.made
    /\ count.calls = 3
    /\ Len(replayLog) = 3
    /\ lastNext.event = NoEvent
    /\ call.ports # <<>>
    /\ \A l \in ListerResults : call.ports # WrapPorts(l)

\* C7 as stated: at most one session, of either kind, is active.
C7_AtMostOneSession == ~(m_record # NULL /\ ReplayActive)

\* C7 amended: at most one record session is unfinalized, the one of m_record;
\* record() finalizes the previous record session and leaves the replay session
\* and the cache as they are, replay() replaces the replay session by a new
\* one with every cursor at 0 and leaves the record session and the sinks as they are.
C7_OneSessionPerKind ==
    [][ /\ \A s \in Sinks : Depth(files'[s]) # 0 => s = m_record'
        /\ m_record' # NULL => Depth(files'[m_record']) = 2
        /\ RecordStep => m_replay' = m_replay /\ m_serialPorts' = m_serialPorts
        /\ ReplayStep =>
             /\ m_record' = m_record /\ files' = files
             /\ ReplayActive' => m_replay'.m_indices = <<>>
      ]_vars

\* a record session and a replay session active together, after an earlier
\* record session was replaced and after a second replay() call
C7_Witness ==
    /\ m_record = 2
    /\ Depth(files[1]) = 0 /\ files[1] # <<>>
    /\ ReplayActive
    /\ count.loads = 2
    /\ Index(m_replay, PortsTag) = 1

\* C8: after replay(nullptr) every call returns the wrapped list of the
\* PortLister and caches it, until replay() is called again; while m_record is
\* nullptr no step other than record() writes to a sink.
C8_NullTurnsOff ==
    [][ /\ (ReplayStep /\ src'.file = NoFile) => m_replay' = NoReplay
        /\ (CallStep /\ src.file = NoFile) =>
             /\ call'.queried
             /\ call'.ports = WrapPorts(call'.lister)
             /\ m_serialPorts' = call'.ports
             /\ m_replay' = NoReplay
        /\ (m_record = NULL /\ ~RecordStep) => files' = files /\ m_record' = NULL
        /\ (RecordStep /\ m_record' = NULL) =>
             \A s \in Sinks : Depth(files'[s]) = 0
      ]_vars

\* a live call after a replay session, which served a recorded call, was turned
\* off by replay(nullptr) and after the recording was turned off
C8_Witness ==
    /\ call.made /\ call.queried
    /\ count.loads = 2
    /\ src.file = NoFile
    /\ m_record = NULL
    /\ Len(recLists[1]) = 1
    /\ ~recLists[1][1].live
    /\ Depth(files[1]) = 0
    /\ call.ports = WrapPorts(<<QZero, QNull>>)

\* C9: a call made while a record session is active appends one
\* getAvailablePorts element to the sink of the session and to no other, its
\* children being the serialized list returned to the caller, whichever source
\* produced the list; the list is also the new cached list.
C9_CallRecordsReturnedList ==
    [][ (CallStep /\ m_record # NULL) =>
          LET old == files[m_record]
              new == files'[m_record]
              added == SubSeq(new, Len(old) + 1, Len(new))
          IN  /\ IsPrefix(old, new)
              /\ Len(added) >= 2
              /\ added[1].kind = "start" /\ added[1].name = PortsTag
              /\ added[Len(added)] = EndTok
              /\ SubSeq(added, 2, Len(added) - 1) = WritePortList(call'.ports)
              /\ \A s \in Sinks : s # m_record => files'[s] = files[s]
              /\ m_serialPorts' = call'.ports
              /\ m_record' = m_record
      ]_vars

\* recorded calls served live, by a stored event and by the fallback cache
C9_Witness ==
    /\ m_record # NULL
    /\ ReplayActive
    /\ Len(recLists[m_record]) = 3
    /\ recLists[m_record][1].live
    /\ ~recLists[m_record][2].live
    /\ lastNext.event = NoEvent
    /\ call.made /\ call.ports # <<>>

\* the writes to sink s, in their order
RECURSIVE WritesOf(_, _)
WritesOf(log, s) ==
    IF log = <<>> THEN <<>>
    ELSE (IF Head(log)[1] = s THEN <<Head(log)[2]>> ELSE <<>>) \o WritesOf(Tail(log), s)

\* C10: a sink holds the two open tags, then the recorded events in call
\* order, then (once the session is finalized) the two closing tags; the open
\* tags are the first write to the sink and the closing tags the last; when
\* record() replaces a session the closing tags of the previous session are
\* written before the open tags of the new one.
C10_TraceLayout ==
    /\ \A s \in Sinks :
         LET w == WritesOf(written, s)
             events == Concat([i \in 1 .. Len(recLists[s]) |-> WriteEvent(recLists[s][i].event)])
         IN  IF w = <<>> THEN files[s] = <<>> /\ s # m_record
             ELSE /\ w[1] = "open"
                  /\ \A i \in 2 .. Len(w) : w[i] = "event" \/ (w[i] = "close" /\ i = Len(w))
                  /\ w[Len(w)] = "close" <=> s # m_record
                  /\ Len(recLists[s]) = Cardinality({i \in 1 .. Len(w) : w[i] = "event"})
                  /\ files[s] = << StartTok("xmlreplay", NoAttrs), StartTok("events", NoAttrs) >>
                                \o events
                                \o (IF s # m_record THEN << EndTok, EndTok >> ELSE <<>>)
    /\ \A i \in 1 .. Len(written) :
         written[i][2] = "open" =>
           \A j \in 1 .. i - 1 :
               written[j][2] = "open" =>
                 \E k \in j + 1 .. i - 1 : written[k] = <<written[j][1], "close">>

\* a session with one event replaced by a second session, which recorded an event
C10_Witness ==
    /\ m_record = 2
    /\ written = << <<1, "open">>, <<1, "event">>, <<1, "close">>, <<2, "open">>, <<2, "event">> >>
    /\ Len(files[1]) > Len(files[2])

RegisterStep == reg'.op = "register" /\ reg'.regs = reg.regs + 1
CreateStep == reg'.op = "create" /\ reg'.creates = reg.creates + 1

\* C11: registerClass on a registered tag returns false and leaves s_factories
\* as it is; on a new tag it returns true and adds exactly the mapping from the
\* tag to the factory; so every tag maps to the factory of its first registration.
C11_FirstRegistrationWins ==
    [][ RegisterStep =>
          /\ IF reg'.tag \in DOMAIN s_factories
             THEN ~reg'.ret /\ s_factories' = s_factories
             ELSE /\ reg'.ret
                  /\ DOMAIN s_factories' = DOMAIN s_factories \cup {reg'.tag}
                  /\ s_factories'[reg'.tag] = reg'.factory
                  /\ \A t \in DOMAIN s_factories : s_factories'[t] = s_factories[t]
          /\ s_factories' = reg'.first
      ]_vars

\* a second registration of a tag, with another factory, was refused while
\* another tag is registered too
C11_Witness ==
    /\ reg.op = "register"
    /\ ~reg.ret
    /\ reg.tag \in DOMAIN s_factories
    /\ s_factories[reg.tag] # reg.factory
    /\ Cardinality(DOMAIN s_factories) = 2

\* C12: createInstance returns a new, empty instance of the class registered
\* for the tag, or nullptr when the tag has no factory, and leaves s_factories
\* as it is; no registerClass or createInstance call removes a tag.
C12_CreateFromRegistry ==
    [][ /\ CreateStep =>
             /\ s_factories' = s_factories
             /\ IF reg'.tag \in DOMAIN s_factories
                THEN /\ reg'.event # NoEvent
                     /\ reg'.event.class = s_factories[reg'.tag]
                     /\ reg'.event.m_ports = <<>>
                     /\ reg'.event.addr = reg.made + 1
                     /\ reg'.made = reg.made + 1
                ELSE reg'.event = NoEvent /\ reg'.made = reg.made
        /\ DOMAIN s_factories \subseteq DOMAIN s_factories'
      ]_vars

\* a miss for an unregistered tag after two instances of a registered tag
C12_Witness ==
    /\ reg.op = "create"
    /\ reg.event = NoEvent
    /\ reg.tag \notin DOMAIN s_factories
    /\ reg.made = 2
    /\ s_factories # <<>>

\* the layout of the document the store was loaded from
Loaded == src.file[2]

ElemTag(e) == Head(e).name

IsRegistered(e) == ElemTag(e) \in DOMAIN s_factories

\* the layout without the elements of the events container that have no factory
RegisteredOnly(l) == [l EXCEPT !.events = SelectSeq(@, IsRegistered)]

RECURSIVE SumLen(_, _)
SumLen(f, keys) ==
    IF keys = {} THEN 0
    ELSE LET k == CHOOSE k \in keys : TRUE IN Len(f[k]) + SumLen(f, keys \ {k})

\* C13: loading a trace stores exactly the elements of the events container
\* whose tag is registered: the store equals the store loaded from the document
\* without the unregistered elements, and holds one event per registered element.
C13_UnregisteredSkipped ==
    (ReplayActive /\ Loaded.root = "xmlreplay") =>
        /\ m_replay.m_events = deserialize(BuildDoc(RegisteredOnly(Loaded)), s_factories, now)
        /\ DOMAIN m_replay.m_events \subseteq DOMAIN s_factories
        /\ SumLen(m_replay.m_events, DOMAIN m_replay.m_events) = Len(RegisteredOnly(Loaded).events)

\* an unregistered element with a child between two events, both returned
C13_Witness ==
    /\ ReplayActive
    /\ Loaded = Layout("xmlreplay", <<>>, <<ElemUsb, ElemUnknown, ElemTwoPorts>>, <<>>)
    /\ Len(returned[PortsTag]) = 2
    /\ returned[PortsTag][2].m_ports = << [portName |-> "COM1"], [portName |-> "COM2"] >>

\* the layout without the children of the root other than the events container
EventsOnly(l) == [l EXCEPT !.pre = <<>>, !.post = <<>>]

\* C14: children of the xmlreplay root other than events are skipped with
\* their subtrees, before and after the events container, and every event of
\* the container is loaded: the store equals the store loaded from the
\* document without those children.
C14_TopLevelSkipped ==
    (ReplayActive /\ Loaded.root = "xmlreplay") =>
        /\ m_replay.m_events = deserialize(BuildDoc(EventsOnly(Loaded)), s_factories, now)
        /\ Len(Stored(m_replay, PortsTag))
             = Len(SelectSeq(Loaded.events, LAMBDA e : ElemTag(e) = PortsTag))

\* a section with an events element of its own before and after the events
\* container, whose two events were loaded and returned
C14_Witness ==
    /\ ReplayActive
    /\ Loaded = Layout("xmlreplay", <<SectionNested>>, <<ElemUsb, ElemNone>>, <<SectionNested>>)
    /\ Len(Stored(m_replay, PortsTag)) = 2
    /\ Len(returned[PortsTag]) = 2

\* the elements of the events container named T, in document order
ElemsOf(l, T) == SelectSeq(l.events, LAMBDA e : ElemTag(e) = T)

HasTime(e) == "time" \in DOMAIN Head(e).attrs

\* C15 as stated: an event deserialized from an element with a time attribute
\* has the value of the attribute as its timestamp.
C15_TimestampFromAttribute ==
    (ReplayActive /\ Loaded.root = "xmlreplay") =>
        \A T \in DOMAIN m_replay.m_events :
            \A i \in 1 .. Len(m_replay.m_events[T]) :
                (i <= Len(ElemsOf(Loaded, T)) /\ HasTime(ElemsOf(Loaded, T)[i])) =>
                    m_replay.m_events[T][i].m_time
                        = timeFromString(Head(ElemsOf(Loaded, T)[i]).attrs.time)

\* the layout in which the event without time attribute has one
WithTime(l) ==
    [l EXCEPT !.events = [i \in 1 .. Len(@) |->
                             IF @[i] = ElemTwoPorts THEN ElemTwoPortsTimed ELSE @[i]]]

\* what load gives an event apart from its timestamp
Payload(event) == [class |-> event.class, m_ports |-> event.m_ports, addr |-> event.addr]

\* C16: an event element without time attribute is loaded as the same element
\* with a time attribute is: the event is constructed, its payload is parsed
\* and it stands at the same place of its tag's sequence, as do all the others.
C16_MissingTimeStillLoads ==
    (ReplayActive /\ Loaded.root = "xmlreplay") =>
        LET timed == deserialize(BuildDoc(WithTime(Loaded)), s_factories, now)
        IN  /\ DOMAIN m_replay.m_events = DOMAIN timed
            /\ \A T \in DOMAIN timed :
                 /\ Len(m_replay.m_events[T]) = Len(timed[T])
                 /\ \A i \in 1 .. Len(timed[T]) :
                      Payload(m_replay.m_events[T][i]) = Payload(timed[T][i])
            /\ \A i \in 1 .. Len(ElemsOf(Loaded, PortsTag)) :
                 ElemsOf(Loaded, PortsTag)[i] = ElemTwoPorts =>
                     /\ i <= Len(Stored(m_replay, PortsTag))
                     /\ Stored(m_replay, PortsTag)[i].m_ports
                          = << [portName |-> "COM1"], [portName |-> "COM2"] >>

\* an event without time attribute between two events with one, returned
\* second with its two ports
C16_Witness ==
    /\ ReplayActive
    /\ Loaded = Layout("xmlreplay", <<>>, <<ElemUsb, ElemTwoPorts, ElemNone>>, <<>>)
    /\ Len(Stored(m_replay, PortsTag)) = 3
    /\ Len(returned[PortsTag]) = 2
    /\ Len(returned[PortsTag][2].m_ports) = 2

SetterStepMade == port'.sets = port.sets + 1

\* C17 as stated: a setter returns true when the transport reports success;
\* when it reports failure the setter returns false and an element carrying
\* the error code is written to the sink of the active record session.
C17_SetterFailureRecorded ==
    [][ SetterStepMade =>
          IF port'.outcome.ok THEN port'.ret
          ELSE /\ ~port'.ret
               /\ m_record # NULL =>
                    /\ IsPrefix(files[m_record], files'[m_record])
                    /\ \E k \in Len(files[m_record]) + 1 .. Len(files'[m_record]) :
                         /\ files'[m_record][k].kind = "start"
                         /\ "error" \in DOMAIN files'[m_record][k].attrs
                         /\ files'[m_record][k].attrs.error = number10(port'.outcome.error)
      ]_vars

\* the part of C17 about the value returned and the event built
SetterReturnsOutcome ==
    [][ SetterStepMade =>
          /\ port'.ret = port'.outcome.ok
          /\ ~port'.outcome.ok =>
               /\ port'.event.m_values["error"] = port'.outcome.error
               /\ port'.debug[1].attrs.error = number10(port'.outcome.error)
          /\ files' = files
      ]_vars

\* the port list an element of the events container holds
ElemPorts(e) ==
    IF e = ElemUsb THEN << SerialPortInfoOf(QUsb) >>
    ELSE IF e = ElemTwoPorts THEN << [portName |-> "COM1"], [portName |-> "COM2"] >>
    ELSE IF e = ElemPartial THEN << [portName |-> "COM1", vendorIdentifier |-> 16] >>
    ELSE <<>>

\* C18: after the load the sequence stored for a registered tag T is the
\* sequence of the elements named T of the events container, in document
\* order, whatever stands between them; nothing is stored for another tag, and
\* every cursor is 0 until getNextEvent is called.
C18_PerTagDocumentOrder ==
    (ReplayActive /\ Loaded.root = "xmlreplay") =>
        /\ \A T \in DOMAIN s_factories :
             LET elems == ElemsOf(Loaded, T)
                 stored == Stored(m_replay, T)
             IN  /\ Len(stored) = Len(elems)
                 /\ \A i \in 1 .. Len(stored) :
                      /\ stored[i].m_ports = ElemPorts(elems[i])
                      /\ i > 1 => stored[i - 1].addr < stored[i].addr
        /\ \A T \in Tags \ DOMAIN s_factories : Stored(m_replay, T) = <<>>
        /\ count.nexts = 0 => \A T \in Tags : Index(m_replay, T) = 0

\* two events with different lists, an element of another tag between them,
\* returned in document order
C18_Witness ==
    /\ ReplayActive
    /\ Loaded = Layout("xmlreplay", <<>>, <<ElemTwoPorts, ElemSerial, ElemUsb>>, <<>>)
    /\ Len(returned[PortsTag]) = 2
    /\ returned[PortsTag][1].m_ports = ElemPorts(ElemTwoPorts)
    /\ returned[PortsTag][2].m_ports = ElemPorts(ElemUsb)

\* C19: getNextEvent(A) changes no stored sequence and leaves the cursor of
\* every other tag B as it is, so what the next getNextEvent(B) returns is
\* the same before and after the call.
C19_CursorsIndependent ==
    [][ NextEventStep =>
          /\ m_replay'.m_events = m_replay.m_events
          /\ \A B \in (Tags \cup DOMAIN m_replay.m_events \cup DOMAIN m_replay'.m_indices)
                      \ {lastNext'.type} :
               /\ Index(m_replay', B) = Index(m_replay, B)
               /\ Stored(m_replay', B) = Stored(m_replay, B)
               /\ getNextEvent(m_replay', B).event = getNextEvent(m_replay, B).event
      ]_vars

\* the second event of getAvailablePorts returned by the fourth call, two
\* calls for other tags having been made before it
C19_Witness ==
    /\ ReplayActive
    /\ count.nexts = 4
    /\ Len(Stored(m_replay, PortsTag)) = 3
    /\ Len(returned[PortsTag]) = 2
    /\ lastNext = [type |-> PortsTag, event |-> Stored(m_replay, PortsTag)[2]]
    /\ \A T \in Tags \ {PortsTag} : Index(m_replay, T) = 0

\* C20: every event stored under tag T is of the class registered for T and
\* reports tag() = T (the Q_ASSERT of operator>> holds for it), and the typed
\* getNextEvent<T>() returns the event whenever it advances the cursor.
C20_StoredVariantMatchesTag ==
    ReplayActive =>
        /\ \A T \in DOMAIN m_replay.m_events :
             \A i \in 1 .. Len(m_replay.m_events[T]) :
                LET event == m_replay.m_events[T][i]
                IN  /\ T \in DOMAIN s_factories
                    /\ event.class = s_factories[T]
                    /\ tag(event) = T
        /\ \A class \in DOMAIN ClassTag :
             LET typed == getNextEventOf(m_replay, class)
                 plain == getNextEvent(m_replay, ClassTag[class])
             IN  /\ typed.replay = plain.replay
                 /\ typed.event = plain.event
                 /\ Index(typed.replay, ClassTag[class]) > Index(m_replay, ClassTag[class])
                       => typed.event # NoEvent

\* one event returned from a trace that mixes registered and unregistered
\* elements, and getNextEvent<GetAvailablePortsEvent>() about to return the second
C20_Witness ==
    /\ ReplayActive
    /\ Loaded.root = "xmlreplay"
    /\ Loaded.events = <<ElemUsb, ElemUnknown, ElemTwoPorts>>
    /\ Index(m_replay, PortsTag) = 1
    /\ lastNext = [type |-> PortsTag, event |-> Stored(m_replay, PortsTag)[1]]
    /\ getNextEventOf(m_replay, "GetAvailablePortsEvent").event = Stored(m_replay, PortsTag)[2]
    /\ Stored(m_replay, PortsTag)[2].class = "GetAvailablePortsEvent"

\* the document has no root element or its root element is not xmlreplay
BadRoot(toks) == toks = <<>> \/ toks[1].kind # "start" \/ toks[1].name # "xmlreplay"

\* C21: replay of a non-null source leaves a replay session active; when the
\* document has no root element or another root than xmlreplay, the store is
\* empty and every getAvailablePorts call of the session returns the empty
\* list without asking the PortLister.
C21_BadRootEmptySession ==
    /\ src.file # NoFile => ReplayActive
    /\ (src.file[1] = "text" /\ BadRoot(Content(src.file))) =>
          /\ ReplayActive
          /\ m_replay.m_events = <<>>
          /\ m_serialPorts = <<>>
          /\ \A i \in 1 .. Len(replayLog) : replayLog[i] = <<>>
          /\ call.made => /\ call.ports = <<>>
                          /\ ~call.queried
                          /\ Len(replayLog) >= 1
                          /\ lastNext = [type |-> PortsTag, event |-> NoEvent]

\* two calls served by the session of a document with root html, loaded as
\* the second source after one earlier call
C21_Witness ==
    /\ ReplayActive
    /\ src.file[1] = "text"
    /\ Content(src.file) = DocOtherRoot
    /\ count.loads = 2
    /\ count.calls = 3
    /\ Len(replayLog) = 2
    /\ call.made /\ call.ports = <<>> /\ ~call.queried

\* the sink holds a finalized recording whose events were all recorded by
\* calls that a replay session served
ReRecorded(s) ==
    /\ files[s] # <<>>
    /\ s # m_record
    /\ recLists[s] # <<>>
    /\ \A i \in 1 .. Len(recLists[s]) : ~recLists[s][i].live

\* the lists a fresh replay session of the sink's trace returns at its first
\* calls are the lists recorded to the sink, in order
ReplaysAsRecorded(s) ==
    LET fresh == Stored(XmlReplayOf(files[s], s_factories, now), PortsTag)
    IN  /\ Len(fresh) = Len(recLists[s])
        /\ \A i \in 1 .. Len(fresh) :
             /\ Len(fresh[i].m_ports) = Len(recLists[s][i].event.m_ports)
             /\ \A k \in 1 .. Len(fresh[i].m_ports) :
                  InfoEqual(fresh[i].m_ports[k], recLists[s][i].event.m_ports[k])

\* C22: a finalized recording of m calls served by a replay session holds m
\* getAvailablePorts events, and a fresh replay session of it returns at its
\* first m calls the same m lists in the same order.
C22_ReRecordingFaithful ==
    \A s \in Sinks : ReRecorded(s) => ReplaysAsRecorded(s)

\* a descriptor that is null or has the five text attributes and no
\* attribute other than these and the two identifiers
CompleteInfo(info) ==
    \/ DOMAIN info = {}
    \/ TextKeys \subseteq DOMAIN info /\ DOMAIN info \subseteq TextKeys \cup IdKeys

\* the recorded trace holds one event per call, and it replays as recorded
\* when every descriptor of the recorded lists is complete
ReRecordingOfCompleteLists ==
    \A s \in Sinks : ReRecorded(s) =>
        /\ Len(Stored(XmlReplayOf(files[s], s_factories, now), PortsTag)) = Len(recLists[s])
        /\ (\A i \in 1 .. Len(recLists[s]) :
              \A k \in 1 .. Len(recLists[s][i].event.m_ports) :
                 CompleteInfo(recLists[s][i].event.m_ports[k]))
             => ReplaysAsRecorded(s)

\* a replay of a recorded trace re-recorded to the second sink: its stored
\* list and the fallback list, both of complete descriptors
ReRecordingOfCompleteListsReached ==
    /\ ReRecorded(2)
    /\ src.file = <<"sink", 1>>
    /\ Len(recLists[2]) = 2
    /\ recLists[2][1].event.m_ports = WrapPorts(<<QUsb, QPlain>>)
    /\ recLists[2][2].event.m_ports = WrapPorts(<<QUsb, QPlain>>)

====
